---- MODULE Spec2Model ----
(***************************************************************************)
(* Model of the toy payment engine: the per-client account state machine   *)
(* (client_account_state.rs) driven by the record loop of run() (main.rs). *)
(*                                                                         *)
(* Money.  Amounts are integers counting 1/100000 of a currency unit, one  *)
(* decimal digit finer than the 4 fractional digits the engine keeps, so   *)
(* that an input below the smallest kept unit (0.00001 = 1) and an input   *)
(* that differs from its normalized value (0.00014 = 14) both exist.  The  *)
(* arithmetic on them is exact: the binary rounding error of f32 additions *)
(* is not modelled.                                                        *)
(***************************************************************************)
EXTENDS Integers, Sequences, FiniteSets, TLC

\* ---------------------------------------------------------------- bounds
\* Number of input records the reader yields at most in one run.
MaxRecords == 4

\* ------------------------------------------------------------ input sets
\* Client ids (u16) and transaction ids (u32) appearing in the input.
Clients == {1, 2}
TxIds == {1, 2}

\* Option<f32> of Transaction.amount: None, or Some(amount).
None == << >>

Some(amount) == <<amount>>

\* Input amounts in 1/100000: -0.0001, 0.00004, 0.00006, 0.00014, 0.0002.
\* None of them is an exact half of a kept unit, so they round the same way
\* under round-half-even and round-half-away-from-zero.
Amounts == {-10, 4, 6, 14, 20}

OptAmounts == {None} \cup {Some(a) : a \in Amounts}

\* The five variants of TransactionType.
DEPOSIT == "deposit"
WITHDRAW == "withdrawal"
DISPUTE == "dispute"
RESOLVE == "resolve"
CHARGEBACK == "chargeback"

TransactionType == {DEPOSIT, WITHDRAW, DISPUTE, RESOLVE, CHARGEBACK}

\* ------------------------------------------------------------- precision
\* One kept unit (0.0001) in 1/100000.
Unit == 10

\* precision::convert_precision: round to 4 fractional digits, halves away
\* from zero.
convert_precision(amount) ==
    IF amount >= 0
    THEN ((amount + (Unit \div 2)) \div Unit) * Unit
    ELSE -((((-amount) + (Unit \div 2)) \div Unit) * Unit)

\* ------------------------------------------------- account state machine
\* TxMeta { amount, under_dispute }
TxMeta(amount, under_dispute) ==
    [amount |-> amount, under_dispute |-> under_dispute]

\* Variant of insert: an entry already in the ledger is kept.
insert_keep_existing(txs, tx, meta) ==
    [t \in (DOMAIN txs) \cup {tx} |-> IF t \in DOMAIN txs THEN txs[t] ELSE meta]

\* HashMap::insert on the ledger: adds the key or overwrites its entry.
insert(txs, tx, meta) ==
    [t \in (DOMAIN txs) \cup {tx} |-> IF t = tx THEN meta ELSE txs[t]]

\* Default for ClientAccountState.
default ==
    [available |-> 0, held |-> 0, locked |-> FALSE, txs |-> << >>]

\* Result of an operation: Ok(()) or Err(..), and self after the call.
Ok(self) == [ok |-> TRUE, state |-> self]
Err(self) == [ok |-> FALSE, state |-> self]

\* Variant of deposit: the amount is used as given, not normalized.
deposit_unrounded(self, tx, amount) ==
    LET rounded_amount == amount IN
    IF rounded_amount > 0
    THEN Ok([self EXCEPT
               !.available = @ + rounded_amount,
               !.txs = insert(@, tx, TxMeta(rounded_amount, FALSE))])
    ELSE Err(self)

\* Variant of deposit: an amount that normalizes to zero is accepted.
deposit_zero_accepted(self, tx, amount) ==
    LET rounded_amount == convert_precision(amount) IN
    IF rounded_amount >= 0
    THEN Ok([self EXCEPT
               !.available = @ + rounded_amount,
               !.txs = insert(@, tx, TxMeta(rounded_amount, FALSE))])
    ELSE Err(self)

deposit(self, tx, amount) ==
    LET rounded_amount == convert_precision(amount) IN
    IF rounded_amount > 0
    THEN Ok([self EXCEPT
               !.available = @ + rounded_amount,
               !.txs = insert(@, tx, TxMeta(rounded_amount, FALSE))])
    ELSE Err(self)

\* Variant of withdraw: there is no funds check.
withdraw_unchecked(self, tx, amount) ==
    LET rounded_amount == convert_precision(amount) IN
    IF rounded_amount <= 0
    THEN Err(self)
    ELSE Ok([self EXCEPT
               !.available = @ - rounded_amount,
               !.txs = insert(@, tx, TxMeta(rounded_amount, FALSE))])

\* Variant of withdraw: the funds check compares the normalized amount.
withdraw_rounded_check(self, tx, amount) ==
    LET rounded_amount == convert_precision(amount) IN
    IF rounded_amount <= 0
    THEN Err(self)
    ELSE IF rounded_amount <= self.available
         THEN Ok([self EXCEPT
                    !.available = @ - rounded_amount,
                    !.txs = insert(@, tx, TxMeta(rounded_amount, FALSE))])
         ELSE Err(self)

\* Variant of withdraw: the funds check is strict.
withdraw_strict(self, tx, amount) ==
    LET rounded_amount == convert_precision(amount) IN
    IF rounded_amount <= 0
    THEN Err(self)
    ELSE IF amount < self.available
         THEN Ok([self EXCEPT
                    !.available = @ - rounded_amount,
                    !.txs = insert(@, tx, TxMeta(rounded_amount, FALSE))])
         ELSE Err(self)

\* Variant of withdraw: the debit happens before the funds check.
withdraw_debit_first(self, tx, amount) ==
    LET rounded_amount == convert_precision(amount)
        debited == [self EXCEPT !.available = @ - rounded_amount]
    IN IF rounded_amount <= 0
       THEN Err(self)
       ELSE IF amount <= self.available
            THEN Ok([debited EXCEPT
                       !.txs = insert(@, tx, TxMeta(rounded_amount, FALSE))])
            ELSE Err(debited)

withdraw(self, tx, amount) ==
    LET rounded_amount == convert_precision(amount) IN
    IF rounded_amount <= 0
    THEN Err(self)
    ELSE IF amount <= self.available
         THEN Ok([self EXCEPT
                    !.available = @ - rounded_amount,
                    !.txs = insert(@, tx, TxMeta(rounded_amount, FALSE))])
         ELSE Err(self)

\* Variant of dispute: the funds leave available without being held.
dispute_no_hold(self, tx) ==
    IF tx \in DOMAIN self.txs
    THEN LET disputed_funds == self.txs[tx].amount IN
         Ok([self EXCEPT
               !.txs[tx].under_dispute = TRUE,
               !.available = @ - disputed_funds])
    ELSE Err(self)

\* Variant of dispute: an entry already under dispute is refused.
dispute_guarded(self, tx) ==
    IF tx \in DOMAIN self.txs /\ ~self.txs[tx].under_dispute
    THEN LET disputed_funds == self.txs[tx].amount IN
         Ok([self EXCEPT
               !.txs[tx].under_dispute = TRUE,
               !.available = @ - disputed_funds,
               !.held = @ + disputed_funds])
    ELSE Err(self)

\* Variant of dispute: the funds are held without leaving available.
dispute_keep_available(self, tx) ==
    IF tx \in DOMAIN self.txs
    THEN LET disputed_funds == self.txs[tx].amount IN
         Ok([self EXCEPT
               !.txs[tx].under_dispute = TRUE,
               !.held = @ + disputed_funds])
    ELSE Err(self)

dispute(self, tx) ==
    IF tx \in DOMAIN self.txs
    THEN LET disputed_funds == self.txs[tx].amount IN
         Ok([self EXCEPT
               !.txs[tx].under_dispute = TRUE,
               !.available = @ - disputed_funds,
               !.held = @ + disputed_funds])
    ELSE Err(self)

\* Variant of resolve: the under_dispute flag is cleared on success.
resolve_clears_flag(self, tx) ==
    IF tx \in DOMAIN self.txs
    THEN IF ~self.txs[tx].under_dispute
         THEN Err(self)
         ELSE LET disputed_funds == self.txs[tx].amount IN
              Ok([self EXCEPT
                    !.txs[tx].under_dispute = FALSE,
                    !.held = @ - disputed_funds,
                    !.available = @ + disputed_funds])
    ELSE Err(self)

\* Variant of resolve: the released funds are not credited to available.
resolve_no_credit(self, tx) ==
    IF tx \in DOMAIN self.txs
    THEN IF ~self.txs[tx].under_dispute
         THEN Err(self)
         ELSE LET disputed_funds == self.txs[tx].amount IN
              Ok([self EXCEPT !.held = @ - disputed_funds])
    ELSE Err(self)

\* Variant of resolve: the under_dispute flag is not checked.
resolve_unchecked(self, tx) ==
    IF tx \in DOMAIN self.txs
    THEN LET disputed_funds == self.txs[tx].amount IN
         Ok([self EXCEPT
               !.held = @ - disputed_funds,
               !.available = @ + disputed_funds])
    ELSE Err(self)

resolve(self, tx) ==
    IF tx \in DOMAIN self.txs
    THEN IF ~self.txs[tx].under_dispute
         THEN Err(self)
         ELSE LET disputed_funds == self.txs[tx].amount IN
              Ok([self EXCEPT
                    !.held = @ - disputed_funds,
                    !.available = @ + disputed_funds])
    ELSE Err(self)

\* Variant of chargeback: the account is not locked.
chargeback_no_lock(self, tx) ==
    IF tx \in DOMAIN self.txs
    THEN IF ~self.txs[tx].under_dispute
         THEN Err(self)
         ELSE LET disputed_funds == self.txs[tx].amount IN
              Ok([self EXCEPT
                    !.txs[tx].under_dispute = FALSE,
                    !.held = @ - disputed_funds])
    ELSE Err(self)

\* Variant of chargeback: the reversed entry is taken out of the ledger.
chargeback_removes(self, tx) ==
    IF tx \in DOMAIN self.txs
    THEN IF ~self.txs[tx].under_dispute
         THEN Err(self)
         ELSE LET disputed_funds == self.txs[tx].amount IN
              Ok([self EXCEPT
                    !.txs = [t \in (DOMAIN self.txs) \ {tx} |-> self.txs[t]],
                    !.held = @ - disputed_funds,
                    !.locked = TRUE])
    ELSE Err(self)

\* Variant of chargeback: the held funds go back to available.
chargeback_refund(self, tx) ==
    IF tx \in DOMAIN self.txs
    THEN IF ~self.txs[tx].under_dispute
         THEN Err(self)
         ELSE LET disputed_funds == self.txs[tx].amount IN
              Ok([self EXCEPT
                    !.txs[tx].under_dispute = FALSE,
                    !.held = @ - disputed_funds,
                    !.available = @ + disputed_funds,
                    !.locked = TRUE])
    ELSE Err(self)

chargeback(self, tx) ==
    IF tx \in DOMAIN self.txs
    THEN IF ~self.txs[tx].under_dispute
         THEN Err(self)
         ELSE LET disputed_funds == self.txs[tx].amount IN
              Ok([self EXCEPT
                    !.txs[tx].under_dispute = FALSE,
                    !.held = @ - disputed_funds,
                    !.locked = TRUE])
    ELSE Err(self)

\* ---------------------------------------------------------------- driver
VARIABLES
    client_account_states,  \* HashMap<u16, ClientAccountState> of run()
    pc,                     \* position of run(): read, write, done, failed
    nread,                  \* records read so far
    output,                 \* rows serialized to the writer, in order
    seen,                   \* history: client ids of the records read
    last,                   \* history: the last record, its outcome, and
                            \*          its account before the handler ran
    open,                   \* history: <<client, tx>> whose last successful
                            \*          dispute has no later successful
                            \*          resolve or chargeback
    withdrawn,              \* history: <<client, tx>> whose ledger entry
                            \*          was recorded by a withdraw
    accepted,               \* history: clients with a record whose handler
                            \*          returned Ok
    flow,                   \* history: per client, the accepted deposits
                            \*          minus the accepted withdraws minus
                            \*          the entries charged back
    disputed                \* history: clients with a dispute that
                            \*          returned Ok

vars ==
    <<client_account_states, pc, nread, output, seen, last, open, withdrawn,
      accepted, flow, disputed>>

\* Variant of account_key: the map is indexed by the transaction id.
account_key_tx(client, tx) == tx

\* The key of the account map a record is routed by: record.client.
account_key(client, tx) == client

\* Variant of skipped: the lock is never looked at.
skipped_never(state) == FALSE

\* The check of run() that skips the record of a locked account.
skipped(state) == state.locked

\* HashMap::entry(client).or_default(): the map with the account created
\* when it is missing.
or_default(states, client) ==
    IF client \in DOMAIN states
    THEN states
    ELSE [c \in (DOMAIN states) \cup {client} |->
            IF c = client THEN default ELSE states[c]]

\* Outcomes of one iteration of the loop.
OK == "ok"
ERR == "err"
SKIPPED == "skipped"
NOAMOUNT == "no amount"

\* The match of run(): the handler a record is dispatched to.  A deposit or
\* withdrawal without an amount calls no handler.
dispatch(type, state, tx, amount) ==
    CASE type = DEPOSIT ->
           IF amount = None THEN [called |-> FALSE, ok |-> FALSE, state |-> state]
           ELSE [called |-> TRUE] @@ deposit(state, tx, amount[1])
      [] type = WITHDRAW ->
           IF amount = None THEN [called |-> FALSE, ok |-> FALSE, state |-> state]
           ELSE [called |-> TRUE] @@ withdraw(state, tx, amount[1])
      [] type = DISPUTE -> [called |-> TRUE] @@ dispute(state, tx)
      [] type = RESOLVE -> [called |-> TRUE] @@ resolve(state, tx)
      [] type = CHARGEBACK -> [called |-> TRUE] @@ chargeback(state, tx)

\* The history of open disputes after a record with the given outcome: a
\* successful deposit or withdraw records a fresh entry, never disputed.
open_after(type, client, tx, result) ==
    IF result # OK THEN open
    ELSE IF type = DISPUTE THEN open \cup {<<client, tx>>}
    ELSE open \ {<<client, tx>>}

\* The history of the entries recorded by a withdraw.
withdrawn_after(type, client, tx, result) ==
    IF result = OK /\ type = WITHDRAW THEN withdrawn \cup {<<client, tx>>}
    ELSE IF result = OK /\ type = DEPOSIT THEN withdrawn \ {<<client, tx>>}
    ELSE withdrawn

\* The history of the funds that entered and left the account for good.
flow_after(type, client, tx, amount, result, state) ==
    IF result # OK THEN flow
    ELSE IF type = DEPOSIT
         THEN [flow EXCEPT ![client] = @ + convert_precision(amount[1])]
    ELSE IF type = WITHDRAW
         THEN [flow EXCEPT ![client] = @ - convert_precision(amount[1])]
    ELSE IF type = CHARGEBACK
         THEN [flow EXCEPT ![client] = @ - state.txs[tx].amount]
    ELSE flow

\* Variant of process: the account is stored only once a handler succeeded.
process_store_on_success(type, client, tx, amount) ==
    /\ pc = "read"
    /\ nread < MaxRecords
    /\ LET key == account_key(client, tx)
           states == or_default(client_account_states, key)
           state == states[key]
           r == dispatch(type, state, tx, amount)
           result == IF skipped(state) THEN SKIPPED
                     ELSE IF ~r.called THEN NOAMOUNT
                     ELSE IF r.ok THEN OK ELSE ERR
       IN /\ client_account_states' =
                IF skipped(state) THEN states
                ELSE IF r.ok THEN [states EXCEPT ![key] = r.state]
                ELSE client_account_states
          /\ last' = [type |-> type, client |-> client, tx |-> tx,
                      amount |-> amount, result |-> result, pre |-> state]
          /\ open' = open_after(type, client, tx, result)
          /\ withdrawn' = withdrawn_after(type, client, tx, result)
          /\ accepted' = IF result = OK THEN accepted \cup {client}
                         ELSE accepted
          /\ flow' = flow_after(type, client, tx, amount, result, state)
          /\ disputed' = IF result = OK /\ type = DISPUTE
                         THEN disputed \cup {client}
                         ELSE disputed
    /\ nread' = nread + 1
    /\ seen' = seen \cup {client}
    /\ UNCHANGED <<pc, output>>

\* One iteration of the while loop of run() on one record.  The rows of a
\* dispute, resolve or chargeback carry no amount (the match never reads it).
process(type, client, tx, amount) ==
    /\ pc = "read"
    /\ nread < MaxRecords
    /\ LET key == account_key(client, tx)
           states == or_default(client_account_states, key)
           state == states[key]
           r == dispatch(type, state, tx, amount)
           result == IF skipped(state) THEN SKIPPED
                     ELSE IF ~r.called THEN NOAMOUNT
                     ELSE IF r.ok THEN OK ELSE ERR
       IN /\ client_account_states' =
                IF skipped(state) THEN states
                ELSE [states EXCEPT ![key] = r.state]
          /\ last' = [type |-> type, client |-> client, tx |-> tx,
                      amount |-> amount, result |-> result, pre |-> state]
          /\ open' = open_after(type, client, tx, result)
          /\ withdrawn' = withdrawn_after(type, client, tx, result)
          /\ accepted' = IF result = OK THEN accepted \cup {client}
                         ELSE accepted
          /\ flow' = flow_after(type, client, tx, amount, result, state)
          /\ disputed' = IF result = OK /\ type = DISPUTE
                         THEN disputed \cup {client}
                         ELSE disputed
    /\ nread' = nread + 1
    /\ seen' = seen \cup {client}
    /\ UNCHANGED <<pc, output>>

RunDeposit ==
    \E client \in Clients, tx \in TxIds, amount \in OptAmounts :
        process(DEPOSIT, client, tx, amount)

RunWithdraw ==
    \E client \in Clients, tx \in TxIds, amount \in OptAmounts :
        process(WITHDRAW, client, tx, amount)

RunDispute ==
    \E client \in Clients, tx \in TxIds :
        process(DISPUTE, client, tx, None)

RunResolve ==
    \E client \in Clients, tx \in TxIds :
        process(RESOLVE, client, tx, None)

RunChargeback ==
    \E client \in Clients, tx \in TxIds :
        process(CHARGEBACK, client, tx, None)

\* No record: the value of last outside the loop, where `record` and
\* `state` are not in scope.
no_record ==
    [type |-> "none", client |-> 0, tx |-> 0, amount |-> None,
     result |-> "none", pre |-> default]

\* raw_record.deserialize fails: run() returns the error, nothing is written.
DeserializeError ==
    /\ pc = "read"
    /\ nread < MaxRecords
    /\ pc' = "failed"
    /\ last' = no_record
    /\ UNCHANGED <<client_account_states, nread, output, seen, open,
                   withdrawn, accepted, flow, disputed>>

\* read_byte_record returns false: the loop ends.
EndOfInput ==
    /\ pc = "read"
    /\ pc' = "write"
    /\ last' = no_record
    /\ UNCHANGED <<client_account_states, nread, output, seen, open,
                   withdrawn, accepted, flow, disputed>>

\* Clients of the rows written so far.
written == {output[i].client : i \in 1..Len(output)}

\* The Output row of one account.
Output(client_id, client_state) ==
    LET available == convert_precision(client_state.available)
        held == convert_precision(client_state.held)
    IN [client |-> client_id, available |-> available, held |-> held,
        total |-> available + held, locked |-> client_state.locked]

\* One iteration of the for loop over the map, in the map's own order.
WriteRow ==
    /\ pc = "write"
    /\ \E client_id \in (DOMAIN client_account_states) \ written :
          output' = Append(output,
                           Output(client_id, client_account_states[client_id]))
    /\ UNCHANGED <<client_account_states, pc, nread, seen, last, open,
                   withdrawn, accepted, flow, disputed>>

\* The for loop is over: flush and return Ok.
Flush ==
    /\ pc = "write"
    /\ (DOMAIN client_account_states) \ written = {}
    /\ pc' = "done"
    /\ UNCHANGED <<client_account_states, nread, output, seen, last, open,
                   withdrawn, accepted, flow, disputed>>

Init ==
    /\ client_account_states = << >>
    /\ pc = "read"
    /\ nread = 0
    /\ output = << >>
    /\ seen = {}
    /\ last = no_record
    /\ open = {}
    /\ withdrawn = {}
    /\ accepted = {}
    /\ flow = [c \in Clients |-> 0]
    /\ disputed = {}

Next ==
    \/ RunDeposit
    \/ RunWithdraw
    \/ RunDispute
    \/ RunResolve
    \/ RunChargeback
    \/ DeserializeError
    \/ EndOfInput
    \/ WriteRow
    \/ Flush

Spec == Init /\ [][Next]_vars

\* ------------------------------------------------------------ properties
\* The account of a client as the handler of the next record finds it: the
\* stored one, or the default one that or_default creates.
Before(client) == or_default(client_account_states, client)[client]

\* The step reads one record of the given type and calls its handler.
Handled(type) ==
    /\ nread' = nread + 1
    /\ last'.type = type
    /\ last'.result \in {OK, ERR}

\* C1: once an account is locked, every later step of the run leaves the
\* account in the map with the same available, held, locked and ledger:
\* every later record of the client is skipped.
C1_LockedAccountFrozen ==
    [][\A c \in DOMAIN client_account_states :
         client_account_states[c].locked =>
            /\ c \in DOMAIN client_account_states'
            /\ client_account_states'[c] = client_account_states[c]]_vars

\* A deposit of a valid amount arrived for a locked account and was skipped.
C1_Witness ==
    /\ last.type = DEPOSIT
    /\ last.amount = Some(20)
    /\ last.result = SKIPPED
    /\ last.pre.locked

\* C2: a record whose handler returns a failure leaves the account (its
\* available, held, locked and whole ledger, flags included) as the handler
\* found it.
C2_FailureChangesNothing ==
    [][(nread' = nread + 1 /\ last'.result = ERR) =>
          client_account_states'[last'.client] = Before(last'.client)]_vars

\* A withdraw failed for insufficient funds on an account that holds funds
\* and a ledger.
C2_Witness ==
    /\ last.type = WITHDRAW
    /\ last.result = ERR
    /\ last.amount = Some(20)
    /\ last.pre.available = 10
    /\ last.pre.txs # << >>

\* C3: dispute(tx) fails when tx is not in the ledger; when tx is in the
\* ledger it succeeds, sets under_dispute, moves the entry's amount from
\* available to held, and so keeps available + held.
C3_Dispute ==
    [][Handled(DISPUTE) =>
          LET c == last'.client
              tx == last'.tx
              before == Before(c)
              after == client_account_states'[c]
          IN IF tx \notin DOMAIN before.txs
             THEN last'.result = ERR
             ELSE /\ last'.result = OK
                  /\ after.txs[tx].under_dispute
                  /\ after.available = before.available - before.txs[tx].amount
                  /\ after.held = before.held + before.txs[tx].amount
                  /\ after.available + after.held
                        = before.available + before.held]_vars

\* A dispute of an entry recorded by a withdraw succeeded and made available
\* negative.
C3_Witness ==
    /\ last.type = DISPUTE
    /\ last.result = OK
    /\ <<last.client, last.tx>> \in withdrawn
    /\ client_account_states[last.client].available < 0

\* C4: resolve(tx) succeeds exactly when tx is in the ledger with
\* under_dispute set; on success the entry's amount moves from held to
\* available, available + held and locked are unchanged.
C4_Resolve ==
    [][Handled(RESOLVE) =>
          LET c == last'.client
              tx == last'.tx
              before == Before(c)
              after == client_account_states'[c]
          IN /\ (last'.result = OK) <=>
                   (tx \in DOMAIN before.txs /\ before.txs[tx].under_dispute)
             /\ last'.result = OK =>
                   /\ after.held = before.held - before.txs[tx].amount
                   /\ after.available
                         = before.available + before.txs[tx].amount
                   /\ after.available + after.held
                         = before.available + before.held
                   /\ after.locked = before.locked]_vars

\* A resolve succeeded.
C4_Witness ==
    /\ last.type = RESOLVE
    /\ last.result = OK
    /\ last.pre.held > 0

\* C5: chargeback(tx) succeeds exactly when tx is in the ledger with
\* under_dispute set; on success held loses the entry's amount, locked is
\* set, under_dispute is cleared, available is kept, and available + held
\* is strictly smaller, by the entry's amount.
C5_Chargeback ==
    [][Handled(CHARGEBACK) =>
          LET c == last'.client
              tx == last'.tx
              before == Before(c)
              after == client_account_states'[c]
          IN /\ (last'.result = OK) <=>
                   (tx \in DOMAIN before.txs /\ before.txs[tx].under_dispute)
             /\ last'.result = OK =>
                   /\ after.held = before.held - before.txs[tx].amount
                   /\ after.locked
                   /\ ~after.txs[tx].under_dispute
                   /\ after.available = before.available
                   /\ after.available + after.held
                         = before.available + before.held
                              - before.txs[tx].amount
                   /\ after.available + after.held
                         < before.available + before.held]_vars

\* A chargeback succeeded.
C5_Witness ==
    /\ last.type = CHARGEBACK
    /\ last.result = OK
    /\ client_account_states[last.client].locked

\* C6: deposit(tx, amount) succeeds exactly when the amount normalized to 4
\* fractional digits is greater than 0; on success available grows by the
\* normalized amount, held and locked are kept, and the ledger maps tx to
\* the normalized amount with under_dispute = FALSE.
C6_Deposit ==
    [][Handled(DEPOSIT) =>
          LET c == last'.client
              tx == last'.tx
              normalized == convert_precision(last'.amount[1])
              before == Before(c)
              after == client_account_states'[c]
          IN /\ (last'.result = OK) <=> (normalized > 0)
             /\ last'.result = OK =>
                   /\ after.available = before.available + normalized
                   /\ after.held = before.held
                   /\ after.locked = before.locked
                   /\ tx \in DOMAIN after.txs
                   /\ after.txs[tx] = TxMeta(normalized, FALSE)]_vars

\* A deposit of 0.00014 succeeded and recorded 0.0001.
C6_Witness ==
    /\ last.type = DEPOSIT
    /\ last.amount = Some(14)
    /\ last.result = OK
    /\ client_account_states[last.client].txs[last.tx].amount = 10

\* C7 as stated: a withdraw of a positive amount fails and changes nothing
\* when the amount exceeds available, and otherwise succeeds, debits
\* available by the (normalized) amount and records the entry; withdrawing
\* exactly available leaves 0.
C7_WithdrawPositiveAmount ==
    [][(Handled(WITHDRAW) /\ last'.amount[1] > 0) =>
          LET c == last'.client
              tx == last'.tx
              amount == last'.amount[1]
              normalized == convert_precision(amount)
              before == Before(c)
              after == client_account_states'[c]
          IN IF amount > before.available
             THEN last'.result = ERR /\ after = before
             ELSE /\ last'.result = OK
                  /\ after.available = before.available - normalized
                  /\ after.txs[tx] = TxMeta(normalized, FALSE)
                  /\ (amount = before.available => after.available = 0)]_vars

\* C7, amended: a withdraw whose amount normalized to 4 fractional digits
\* is positive fails and changes nothing when the input amount exceeds
\* available, and otherwise succeeds, debits available by the normalized
\* amount and records the entry with the normalized amount and
\* under_dispute = FALSE; withdrawing exactly available leaves 0.
C7_Withdraw ==
    [][(Handled(WITHDRAW) /\ convert_precision(last'.amount[1]) > 0) =>
          LET c == last'.client
              tx == last'.tx
              amount == last'.amount[1]
              normalized == convert_precision(amount)
              before == Before(c)
              after == client_account_states'[c]
          IN IF amount > before.available
             THEN last'.result = ERR /\ after = before
             ELSE /\ last'.result = OK
                  /\ after.available = before.available - normalized
                  /\ after.txs[tx] = TxMeta(normalized, FALSE)
                  /\ (amount = before.available => after.available = 0)]_vars

\* A withdraw of exactly the available funds succeeded and left 0.
C7_Witness ==
    /\ last.type = WITHDRAW
    /\ last.result = OK
    /\ last.amount = Some(20)
    /\ last.pre.available = 20
    /\ client_account_states[last.client].available = 0

\* C8: a ledger entry has under_dispute set only if a dispute of the entry
\* succeeded and no resolve or chargeback of it has succeeded since.
C8_FlagOnlyWhileDisputeOpen ==
    \A c \in DOMAIN client_account_states :
       \A tx \in DOMAIN client_account_states[c].txs :
          client_account_states[c].txs[tx].under_dispute => <<c, tx>> \in open

\* C9: a successful dispute(tx) of an entry that was not under dispute,
\* followed at once by resolve(tx), leaves available, held and locked as
\* they were before the dispute.
C9_DisputeThenResolve ==
    [][(/\ last.type = DISPUTE
        /\ last.result = OK
        /\ ~last.pre.txs[last.tx].under_dispute
        /\ Handled(RESOLVE)
        /\ last'.client = last.client
        /\ last'.tx = last.tx) =>
          LET after == client_account_states'[last.client]
          IN /\ last'.result = OK
             /\ after.available = last.pre.available
             /\ after.held = last.pre.held
             /\ after.locked = last.pre.locked]_vars

\* A deposit, a withdraw, a dispute of the withdraw's entry and its resolve:
\* four records are the fewest that end in a successful resolve of an entry
\* recorded by a withdraw, so the third was the dispute.
C9_Witness ==
    /\ nread = 4
    /\ last.type = RESOLVE
    /\ last.result = OK
    /\ <<last.client, last.tx>> \in withdrawn

\* C10: the finished run has written exactly one row for each client id read
\* from the input and no other row; a client none of whose records was
\* accepted is reported with available 0, held 0, locked false; accounts are
\* created on first reference and never removed.
C10_OneRowPerClient ==
    /\ [](pc = "done" =>
            /\ \A c \in seen :
                  Cardinality({i \in 1..Len(output) : output[i].client = c}) = 1
            /\ \A i \in 1..Len(output) :
                  /\ output[i].client \in seen
                  /\ output[i].client \notin accepted =>
                        output[i] = [client |-> output[i].client,
                                     available |-> 0, held |-> 0,
                                     total |-> 0, locked |-> FALSE])
    /\ [](DOMAIN client_account_states = seen)
    /\ [][DOMAIN client_account_states
             \subseteq DOMAIN client_account_states']_vars

\* A finished run whose input named two clients: client 1 ends with funds,
\* client 2 had no record accepted and is reported after it, all zero.
C10_Witness ==
    /\ pc = "done"
    /\ Len(output) = 2
    /\ seen = Clients
    /\ accepted = {1}
    /\ output[1].client = 1
    /\ output[1].available > 0
    /\ output[2] = [client |-> 2, available |-> 0, held |-> 0, total |-> 0,
                    locked |-> FALSE]

\* C11: a record of one client leaves the account of every other client as
\* it was; a dispute, resolve or chargeback of one client naming a
\* transaction id that only another client's ledger holds fails.
C11_ClientsIsolated ==
    [][nread' = nread + 1 =>
          /\ \A c \in DOMAIN client_account_states :
                c # last'.client =>
                   /\ c \in DOMAIN client_account_states'
                   /\ client_account_states'[c] = client_account_states[c]
          /\ (/\ last'.type \in {DISPUTE, RESOLVE, CHARGEBACK}
              /\ last'.result # SKIPPED
              /\ last'.tx \notin DOMAIN Before(last'.client).txs) =>
                last'.result = ERR]_vars

\* Client 2 disputed a transaction id that only client 1's ledger holds.
C11_Witness ==
    /\ last.client = 2
    /\ last.type = DISPUTE
    /\ last.result = ERR
    /\ 1 \in DOMAIN client_account_states
    /\ last.tx \in DOMAIN client_account_states[1].txs
    /\ last.tx \notin DOMAIN client_account_states[2].txs
    /\ last.tx # last.client

C14_DisputeRepeats ==
    [][(/\ Handled(DISPUTE)
        /\ last'.tx \in DOMAIN Before(last'.client).txs
        /\ Before(last'.client).txs[last'.tx].under_dispute) =>
          LET before == Before(last'.client)
              after == client_account_states'[last'.client]
          IN /\ last'.result = OK
             /\ after.available = before.available - before.txs[last'.tx].amount
             /\ after.held = before.held + before.txs[last'.tx].amount
             /\ after.txs[last'.tx].under_dispute]_vars

\* A deposit of 0.0002 was disputed twice: 0.0004 held, available -0.0002.
C14_Witness ==
    /\ last.type = DISPUTE
    /\ last.result = OK
    /\ last.pre.txs[last.tx].under_dispute
    /\ last.pre.txs[last.tx].amount = 20
    /\ last.pre.held = 20
    /\ client_account_states[last.client].held = 40
    /\ client_account_states[last.client].available = -20

\* C15: a successful deposit or withdraw whose tx id is already in the ledger
\* replaces the entry by the new normalized amount with under_dispute =
\* FALSE, keeps held and the other entries, and leaves an entry on which
\* resolve and chargeback fail until it is disputed again.
C15_Overwrite ==
    [][(/\ (Handled(DEPOSIT) \/ Handled(WITHDRAW))
        /\ last'.result = OK
        /\ last'.tx \in DOMAIN Before(last'.client).txs) =>
          LET tx == last'.tx
              before == Before(last'.client)
              after == client_account_states'[last'.client]
          IN /\ after.txs[tx]
                   = TxMeta(convert_precision(last'.amount[1]), FALSE)
             /\ after.held = before.held
             /\ DOMAIN after.txs = DOMAIN before.txs
             /\ \A t \in (DOMAIN before.txs) \ {tx} : after.txs[t] = before.txs[t]
             /\ ~resolve(after, tx).ok
             /\ ~chargeback(after, tx).ok
             /\ dispute(after, tx).ok
             /\ resolve(dispute(after, tx).state, tx).ok]_vars

\* A deposit of 0.0001 replaced an entry of 0.0002 that was under dispute:
\* 0.0002 stays held.
C15_Witness ==
    /\ last.type = DEPOSIT
    /\ last.result = OK
    /\ last.amount = Some(6)
    /\ last.tx \in DOMAIN last.pre.txs
    /\ last.pre.txs[last.tx] = TxMeta(20, TRUE)
    /\ client_account_states[last.client].held = 20
    /\ client_account_states[last.client].txs[last.tx] = TxMeta(10, FALSE)

\* C16: withdraw compares the input amount, not the normalized one, with
\* available: an input above available is rejected even when its normalized
\* value equals available, and an accepted withdraw debits and records the
\* normalized amount.
C16_WithdrawComparesInput ==
    [][Handled(WITHDRAW) =>
          LET amount == last'.amount[1]
              normalized == convert_precision(amount)
              before == Before(last'.client)
              after == client_account_states'[last'.client]
          IN /\ amount > before.available => last'.result = ERR
             /\ last'.result = OK =>
                   /\ after.available = before.available - normalized
                   /\ after.txs[last'.tx].amount = normalized]_vars

\* A withdraw of 0.00014 from 0.0001 available was rejected.
C16_Witness ==
    /\ last.type = WITHDRAW
    /\ last.amount = Some(14)
    /\ last.result = ERR
    /\ last.pre.available = 10
    /\ convert_precision(14) = last.pre.available

\* C17: the ledger of an account gains an entry, or has one replaced, only
\* in the step of a successful deposit or withdraw of that client, and then
\* only under the record's tx id; every other step keeps the set of
\* transaction ids and every amount, and no step removes an entry.
C17_LedgerFrame ==
    [][\A c \in DOMAIN client_account_states' :
          LET before == Before(c).txs
              after == client_account_states'[c].txs
              recorded == /\ nread' = nread + 1
                          /\ last'.client = c
                          /\ last'.type \in {DEPOSIT, WITHDRAW}
                          /\ last'.result = OK
          IN /\ DOMAIN before \subseteq DOMAIN after
             /\ recorded => DOMAIN after = (DOMAIN before) \cup {last'.tx}
             /\ ~recorded => DOMAIN after = DOMAIN before
             /\ \A t \in DOMAIN before :
                   (~recorded \/ t # last'.tx) =>
                      after[t].amount = before[t].amount]_vars

\* A chargeback succeeded and its entry is still in the ledger.
C17_Witness ==
    /\ last.type = CHARGEBACK
    /\ last.result = OK
    /\ last.tx \in DOMAIN client_account_states[last.client].txs
    /\ client_account_states[last.client].txs[last.tx].amount
          = last.pre.txs[last.tx].amount

\* C18: in every state, available + held of an account is the sum of its
\* accepted deposits minus the sum of its accepted withdraws minus the sum
\* of the entry amounts it had charged back; a successful dispute or
\* resolve, repeated or not, keeps available + held.
C18_TotalIsNetFlow ==
    /\ [](\A c \in DOMAIN client_account_states :
             client_account_states[c].available + client_account_states[c].held
                = flow[c])
    /\ [][((Handled(DISPUTE) \/ Handled(RESOLVE)) /\ last'.result = OK) =>
             LET before == Before(last'.client)
                 after == client_account_states'[last'.client]
             IN after.available + after.held
                   = before.available + before.held]_vars

\* A deposit of 0.0002, a withdraw of 0.0001, and the deposit disputed and
\* charged back: the account ends at -0.0001.
C18_Witness ==
    /\ last.type = CHARGEBACK
    /\ last.result = OK
    /\ <<last.client, last.tx>> \notin withdrawn
    /\ flow[last.client] = -10
    /\ client_account_states[last.client].available = -10
    /\ client_account_states[last.client].held = 0

\* C19: an account none of whose disputes succeeded has available >= 0 and
\* held = 0, whatever deposits and withdraws were accepted or rejected.
C19_NoDisputeNoDebt ==
    \A c \in DOMAIN client_account_states :
       c \notin disputed =>
          /\ client_account_states[c].available >= 0
          /\ client_account_states[c].held = 0

\* A withdraw of 0.00006, which normalizes to more than its input, took the
\* last 0.0001 of an account that never had a dispute.
C19_Witness ==
    /\ last.type = WITHDRAW
    /\ last.amount = Some(6)
    /\ last.result = OK
    /\ last.client \notin disputed
    /\ last.pre.available = 10
    /\ client_account_states[last.client].available = 0

\* C20: locked turns from false to true only in the step of a successful
\* chargeback of that client and never turns back to false; a successful
\* chargeback starts on an unlocked account and locks it, so an account has
\* at most one in a run.
C20_LockedByOneChargeback ==
    [][\A c \in DOMAIN client_account_states' :
          LET charged == /\ Handled(CHARGEBACK)
                         /\ last'.result = OK
                         /\ last'.client = c
          IN /\ (~Before(c).locked /\ client_account_states'[c].locked)
                   => charged
             /\ Before(c).locked => client_account_states'[c].locked
             /\ charged =>
                   (~Before(c).locked /\ client_account_states'[c].locked)]_vars

\* A second chargeback arrived for an account that a chargeback had locked,
\* and was skipped.
C20_Witness ==
    /\ last.type = CHARGEBACK
    /\ last.result = SKIPPED
    /\ last.pre.locked
    /\ flow[last.client] = 0
    /\ last.client \in disputed

====
